---- MODULE Spec2Model ----
(***************************************************************************)
(* Model of the Pac-Man clone in src/main.py: Maze, Player, Ghost and the  *)
(* Game orchestration (Game.update, Game.handle_restart, Game.run).        *)
(*                                                                         *)
(* Cells are <<x, y>> pairs and directions are <<dx, dy>> pairs as in the  *)
(* source.  Continuous positions are kept in hundredths of a pixel, so the *)
(* speeds 2.0, 1.8, 2.4 and 1.8 * 0.6 = 1.08 are the integers 200, 180,    *)
(* 240 and 108.  Every movement of the program is axis-aligned (PosAligned *)
(* below is checked), so math.hypot(dx, dy) is |dx| + |dy| on the moves    *)
(* and the quotient dx / dist is the sign of dx.                           *)
(***************************************************************************)
EXTENDS Integers, Sequences, FiniteSets, TLC

VARIABLES
  grid,         \* Maze.grid: grid[y][x] is the tile at column x, row y
  dots_total,   \* Maze.dots_total
  player,       \* Player: cell, pos, direction, next_direction
  ghosts,       \* Game.ghosts: sequence of Ghost records
  score,        \* Game.score
  lives,        \* Game.lives
  level,        \* Game.level
  ghost_combo,  \* Game.ghost_combo
  game_over,    \* Game.game_over
  pc,           \* position in the Game.run loop: "update" or "restart"
  ticks,        \* number of Game.update calls made so far
  ate,          \* the local `ate` of the last Game.update that ran
  hits,         \* collision pass of the last Game.update: what each ghost in proximity did
  trail,        \* assignments to Ghost.state made by the last Game.update, per ghost
  call,         \* the method call made last
  ret           \* <<>> until the call has returned, then <<v>> with v the value returned;
                \* for Game.update and Game.handle_restart v names the branch taken

vars == <<grid, dots_total, player, ghosts, score, lives, level, ghost_combo,
          game_over, pc, ticks, ate, hits, trail, call, ret>>

session == <<grid, dots_total, player, ghosts, score, lives, level, ghost_combo, game_over>>

-----------------------------------------------------------------------------
(* Configuration and constants, src/main.py:11-49                          *)

CELL_SIZE == 24
COLS == 28
ROWS == 31

\* model unit: positions are in 1/PixUnit pixel
PixUnit == 100

WALL == "#"
DOT == "."
POWER == "o"
EMPTY == " "
GHOST_GATE == "="

UP == <<0, -1>>
DOWN == <<0, 1>>
LEFT == <<-1, 0>>
RIGHT == <<1, 0>>
STOP == <<0, 0>>

\* the iteration order of every `for d in [UP, DOWN, LEFT, RIGHT]`
DirList == <<UP, DOWN, LEFT, RIGHT>>

Dirs == {UP, DOWN, LEFT, RIGHT}

OPPOSITE(d) ==
  CASE d = UP -> DOWN
    [] d = DOWN -> UP
    [] d = LEFT -> RIGHT
    [] d = RIGHT -> LEFT
    [] OTHER -> STOP

GHOST_NORMAL == "normal"
GHOST_VULNERABLE == "vulnerable"
GHOST_EYES == "eyes"

None == "None"

MAZE_LAYOUT ==
  <<
    <<"#","#","#","#","#","#","#","#","#","#","#","#","#","#","#","#","#","#","#","#","#","#","#","#","#","#","#","#">>,
    <<"#",".",".",".",".",".",".",".",".",".",".",".",".","#","#",".",".",".",".",".",".",".",".",".",".",".",".","#">>,
    <<"#",".","#","#","#","#",".","#","#","#","#","#",".","#","#",".","#","#","#","#","#",".","#","#","#","#",".","#">>,
    <<"#","o","#","#","#","#",".","#","#","#","#","#",".","#","#",".","#","#","#","#","#",".","#","#","#","#","o","#">>,
    <<"#",".","#","#","#","#",".","#","#","#","#","#",".","#","#",".","#","#","#","#","#",".","#","#","#","#",".","#">>,
    <<"#",".",".",".",".",".",".",".",".",".",".",".",".",".",".",".",".",".",".",".",".",".",".",".",".",".",".","#">>,
    <<"#",".","#","#","#","#",".","#","#",".","#","#","#","#","#","#","#","#",".","#","#",".","#","#","#","#",".","#">>,
    <<"#",".","#","#","#","#",".","#","#",".","#","#","#","#","#","#","#","#",".","#","#",".","#","#","#","#",".","#">>,
    <<"#",".",".",".",".",".",".","#","#",".",".",".",".","#","#",".",".",".",".","#","#",".",".",".",".",".",".","#">>,
    <<"#","#","#","#","#","#",".","#","#","#","#","#"," ","#","#"," ","#","#","#","#","#",".","#","#","#","#","#","#">>,
    <<" "," "," "," "," ","#",".","#","#","#","#","#"," ","#","#"," ","#","#","#","#","#",".","#"," "," "," "," "," ">>,
    <<" "," "," "," "," ","#",".","#","#"," "," "," "," "," "," "," "," "," "," ","#","#",".","#"," "," "," "," "," ">>,
    <<" "," "," "," "," ","#",".","#","#"," ","#","#","#","=","=","#","#","#"," ","#","#",".","#"," "," "," "," "," ">>,
    <<"#","#","#","#","#","#",".","#","#"," ","#"," "," "," "," "," "," ","#"," ","#","#",".","#","#","#","#","#","#">>,
    <<" "," "," "," "," "," ","."," "," "," ","#"," ","G"," "," ","G"," ","#"," "," "," ","."," "," "," "," "," "," ">>,
    <<"#","#","#","#","#","#",".","#","#"," ","#"," "," "," "," "," "," ","#"," ","#","#",".","#","#","#","#","#","#">>,
    <<" "," "," "," "," ","#",".","#","#"," ","#","#","#","#","#","#","#","#"," ","#","#",".","#"," "," "," "," "," ">>,
    <<" "," "," "," "," ","#",".","#","#"," "," "," "," "," "," "," "," "," "," ","#","#",".","#"," "," "," "," "," ">>,
    <<" "," "," "," "," ","#",".","#","#"," ","#","#","#","#","#","#","#","#"," ","#","#",".","#"," "," "," "," "," ">>,
    <<"#","#","#","#","#","#",".","#","#"," ","#","#","#","#","#","#","#","#"," ","#","#",".","#","#","#","#","#","#">>,
    <<"#",".",".",".",".",".",".",".",".",".",".",".",".","#","#",".",".",".",".",".",".",".",".",".",".",".",".","#">>,
    <<"#",".","#","#","#","#",".","#","#","#","#","#",".","#","#",".","#","#","#","#","#",".","#","#","#","#",".","#">>,
    <<"#","o",".",".","#","#",".",".",".",".",".",".",".",".",".",".",".",".",".",".",".",".","#","#",".",".","o","#">>,
    <<"#","#","#",".","#","#",".","#","#",".","#","#","#","#","#","#","#","#",".","#","#",".","#","#",".","#","#","#">>,
    <<"#",".",".",".",".",".",".","#","#",".",".",".",".","#","#",".",".",".",".","#","#",".",".",".",".",".",".","#">>,
    <<"#",".","#","#","#","#","#","#","#","#","#","#",".","#","#",".","#","#","#","#","#","#","#","#","#","#",".","#">>,
    <<"#",".",".",".",".",".",".",".",".",".",".",".",".",".",".",".",".",".",".",".",".",".",".",".",".",".",".","#">>,
    <<"#",".","#","#","#","#",".","#","#","#","#","#",".","#","#",".","#","#","#","#","#",".","#","#","#","#",".","#">>,
    <<"#","o",".",".",".",".",".",".",".",".",".",".",".",".",".",".",".",".",".",".",".",".",".",".",".",".","o","#">>,
    <<"#","#","#","#","#","#","#","#","#","#","#","#","#","#","#","#","#","#","#","#","#","#","#","#","#","#","#","#">>,
    <<" "," "," "," "," "," "," "," "," "," "," "," "," "," "," "," "," "," "," "," "," "," "," "," "," "," "," "," ">>
  >>

-----------------------------------------------------------------------------
(* Utility functions                                                       *)

Abs(n) == IF n < 0 THEN -n ELSE n

Min(a, b) == IF a < b THEN a ELSE b

Sign(n) == IF n > 0 THEN 1 ELSE IF n < 0 THEN -1 ELSE 0

grid_to_pix(cell) ==
  << (cell[1] * CELL_SIZE + CELL_SIZE \div 2) * PixUnit,
     (cell[2] * CELL_SIZE + CELL_SIZE \div 2) * PixUnit >>

-----------------------------------------------------------------------------
(* Maze                                                                    *)

\* Maze.__init__: self.grid
MazeGrid == [y \in 0..(ROWS - 1) |-> [x \in 0..(COLS - 1) |-> MAZE_LAYOUT[y + 1][x + 1]]]

AllCells == {<<x, y>> : x \in 0..(COLS - 1), y \in 0..(ROWS - 1)}

\* Maze.__init__: self.dots_total, the count of DOT plus the count of POWER
CountTiles(g, t) == Cardinality({c \in AllCells : g[c[2]][c[1]] = t})

MazeDots(g) == CountTiles(g, DOT) + CountTiles(g, POWER)

is_wall(g, cell) ==
  LET x0 == cell[1]
      y == cell[2]
      x == IF x0 < 0 THEN COLS - 1 ELSE IF x0 >= COLS THEN 0 ELSE x0
  IN  IF y < 0 \/ y >= ROWS THEN TRUE ELSE g[y][x] = WALL

is_gate(g, cell) ==
  LET x == cell[1]
      y == cell[2]
  IN  IF 0 <= y /\ y < ROWS /\ 0 <= x /\ x < COLS THEN g[y][x] = GHOST_GATE ELSE FALSE

InGrid(cell) == 0 <= cell[1] /\ cell[1] < COLS /\ 0 <= cell[2] /\ cell[2] < ROWS

\* Maze.eat: the return value
EatRet(g, cell) ==
  IF InGrid(cell)
  THEN IF g[cell[2]][cell[1]] = DOT THEN "dot"
       ELSE IF g[cell[2]][cell[1]] = POWER THEN "power"
       ELSE None
  ELSE None

\* Maze.eat: the grid afterwards
EatGrid(g, cell) ==
  IF EatRet(g, cell) # None
  THEN [g EXCEPT ![cell[2]][cell[1]] = EMPTY]
  ELSE g

\* EatDots with the tile test dropped: every call on a cell of the grid decrements
EatDotsAnyTile(g, n, cell) == IF InGrid(cell) THEN n - 1 ELSE n

\* Maze.eat: dots_total afterwards
EatDots(g, n, cell) == IF EatRet(g, cell) # None THEN n - 1 ELSE n

-----------------------------------------------------------------------------
(* Movement shared by Player.update and Ghost.update                        *)

\* the wrap with `nx > COLS` for `nx >= COLS`
WrapXLate(nx) == IF nx < 0 THEN COLS - 1 ELSE IF nx > COLS THEN 0 ELSE nx

\* the wrap `if nx < 0: nx = COLS - 1 elif nx >= COLS: nx = 0`
WrapX(nx) == IF nx < 0 THEN COLS - 1 ELSE IF nx >= COLS THEN 0 ELSE nx

\* abs(pos[0] - cx) < 2 and abs(pos[1] - cy) < 2
at_center_of_cell(a) ==
  LET c == grid_to_pix(a.cell)
  IN  Abs(a.pos[1] - c[1]) < 2 * PixUnit /\ Abs(a.pos[2] - c[2]) < 2 * PixUnit

\* "Move position toward the center of current cell": dist = hypot(dx, dy),
\* step = min(speed, dist), pos += (dx / dist * step, dy / dist * step).
\* Only the axis-aligned cases are defined; PosAligned shows no other arises.
MoveToward(pos, target, speed) ==
  LET dx == target[1] - pos[1]
      dy == target[2] - pos[2]
  IN  CASE dy = 0 -> << pos[1] + Sign(dx) * Min(speed, Abs(dx)), pos[2] >>
        [] dx = 0 -> << pos[1], pos[2] + Sign(dy) * Min(speed, Abs(dy)) >>

-----------------------------------------------------------------------------
(* Player                                                                  *)

PlayerSpeed == 200

\* Player.reset
PlayerReset(start) ==
  [start_cell |-> start, cell |-> start, pos |-> grid_to_pix(start),
   direction |-> STOP, next_direction |-> STOP]

\* Player.handle_input: keys is the set of arrow/WASD directions held down
handle_input(p, keys) ==
  IF UP \in keys THEN [p EXCEPT !.next_direction = UP]
  ELSE IF DOWN \in keys THEN [p EXCEPT !.next_direction = DOWN]
  ELSE IF LEFT \in keys THEN [p EXCEPT !.next_direction = LEFT]
  ELSE IF RIGHT \in keys THEN [p EXCEPT !.next_direction = RIGHT]
  ELSE p

PlayerCanMove(g, cell, direction) ==
  LET nx == WrapX(cell[1] + direction[1])
      ny == cell[2] + direction[2]
  IN  ~(is_wall(g, <<nx, ny>>) \/ is_gate(g, <<nx, ny>>))

\* Player.update, "Move to next cell center if moving"
PlayerStep(cell, direction) == << WrapX(cell[1] + direction[1]), cell[2] + direction[2] >>

\* Player.update, the branch taken when at_center_of_cell() holds
PlayerCommit(p, g) ==
  LET d1 == IF p.next_direction # p.direction /\ PlayerCanMove(g, p.cell, p.next_direction)
            THEN p.next_direction ELSE p.direction
      d2 == IF ~PlayerCanMove(g, p.cell, d1) THEN STOP ELSE d1
      c2 == IF d2 # STOP THEN PlayerStep(p.cell, d2) ELSE p.cell
  IN  [p EXCEPT !.pos = grid_to_pix(p.cell), !.direction = d2, !.cell = c2]

\* Player.update without the at_center_of_cell() test: it commits on every tick
PlayerUpdateAlways(p, g, keys) ==
  LET p2 == PlayerCommit(handle_input(p, keys), g)
  IN  [p2 EXCEPT !.pos = MoveToward(p2.pos, grid_to_pix(p2.cell), PlayerSpeed)]

PlayerUpdate(p, g, keys) ==
  LET p1 == handle_input(p, keys)
      p2 == IF at_center_of_cell(p1) THEN PlayerCommit(p1, g) ELSE p1
  IN  [p2 EXCEPT !.pos = MoveToward(p2.pos, grid_to_pix(p2.cell), PlayerSpeed)]

-----------------------------------------------------------------------------
(* Ghost                                                                   *)

GhostSpeed == 180
EyesSpeed == 240

\* Ghost.reset without `self.state = GHOST_NORMAL`
GhostResetKeepState(gh, d) ==
  [gh EXCEPT !.cell = gh.start_cell, !.pos = grid_to_pix(gh.start_cell),
             !.direction = d, !.speed = GhostSpeed,
             !.vulnerable_timer = 0, !.home_cell = gh.start_cell]

\* Ghost.reset; d is the outcome of random.choice([UP, DOWN, LEFT, RIGHT])
GhostReset(gh, d) ==
  [gh EXCEPT !.cell = gh.start_cell, !.pos = grid_to_pix(gh.start_cell),
             !.direction = d, !.speed = GhostSpeed, !.state = GHOST_NORMAL,
             !.vulnerable_timer = 0, !.home_cell = gh.start_cell]

\* Ghost.__init__
NewGhost(type, start, d) ==
  GhostReset([ghost_type |-> type, start_cell |-> start, home_cell |-> start,
              cell |-> start, pos |-> grid_to_pix(start), direction |-> d,
              speed |-> GhostSpeed, state |-> GHOST_NORMAL, vulnerable_timer |-> 0], d)

\* Ghost.set_vulnerable without the GHOST_EYES test
set_vulnerable_any(gh, duration_ms) ==
  [gh EXCEPT !.state = GHOST_VULNERABLE, !.vulnerable_timer = duration_ms]

set_vulnerable(gh, duration_ms) ==
  IF gh.state = GHOST_EYES THEN gh
  ELSE [gh EXCEPT !.state = GHOST_VULNERABLE, !.vulnerable_timer = duration_ms]

eaten(gh) == [gh EXCEPT !.state = GHOST_EYES, !.speed = EyesSpeed]

\* Ghost.revive_if_at_home; d is the outcome of random.choice
revive_if_at_home(gh, d) ==
  IF gh.state = GHOST_EYES /\ gh.cell = gh.home_cell
  THEN [gh EXCEPT !.state = GHOST_NORMAL, !.speed = GhostSpeed, !.direction = d]
  ELSE gh


\* Ghost.can_move without the gate test: the gate is open to every ghost
GhostCanMoveAnyGate(gh, g, cell, direction) ==
  LET nx == WrapX(cell[1] + direction[1])
      ny == cell[2] + direction[2]
  IN  IF ny < 0 \/ ny >= ROWS THEN FALSE
      ELSE IF is_wall(g, <<nx, ny>>) THEN FALSE
      ELSE TRUE

GhostCanMove(gh, g, cell, direction) ==
  LET nx == WrapX(cell[1] + direction[1])
      ny == cell[2] + direction[2]
  IN  IF ny < 0 \/ ny >= ROWS THEN FALSE
      ELSE IF is_wall(g, <<nx, ny>>) THEN FALSE
      ELSE IF is_gate(g, <<nx, ny>>) /\ gh.state # GHOST_EYES THEN FALSE
      ELSE TRUE

_next_cell(cell, direction) == << WrapX(cell[1] + direction[1]), cell[2] + direction[2] >>

\* Manhattan distance
_heuristic(a, b) == Abs(a[1] - b[1]) + Abs(a[2] - b[2])

\* valid_dirs without the `continue` that skips the reverse direction
ValidDirsWithReverse(gh, g) ==
  SelectSeq(DirList, LAMBDA d : GhostCanMove(gh, g, gh.cell, d))

\* the list valid_dirs built by the first loop of choose_direction
ValidDirs(gh, g) ==
  SelectSeq(DirList, LAMBDA d : d # OPPOSITE(gh.direction) /\ GhostCanMove(gh, g, gh.cell, d))

\* a min that keeps the last of the elements with the smallest key
RECURSIVE LastMin(_, _, _)
LastMin(seq, cell, target) ==
  IF Len(seq) = 1 THEN seq[1]
  ELSE LET rest == LastMin(Tail(seq), cell, target)
       IN  IF _heuristic(_next_cell(cell, seq[1]), target)
                < _heuristic(_next_cell(cell, rest), target)
           THEN seq[1] ELSE rest

\* Python's min(seq, key=...): the first element with the smallest key
RECURSIVE FirstMin(_, _, _)
FirstMin(seq, cell, target) ==
  IF Len(seq) = 1 THEN seq[1]
  ELSE LET rest == FirstMin(Tail(seq), cell, target)
       IN  IF _heuristic(_next_cell(cell, seq[1]), target)
                <= _heuristic(_next_cell(cell, rest), target)
           THEN seq[1] ELSE rest

\* Python's max(seq, key=...): the first element with the largest key
RECURSIVE FirstMax(_, _, _)
FirstMax(seq, cell, target) ==
  IF Len(seq) = 1 THEN seq[1]
  ELSE LET rest == FirstMax(Tail(seq), cell, target)
       IN  IF _heuristic(_next_cell(cell, seq[1]), target)
                >= _heuristic(_next_cell(cell, rest), target)
           THEN seq[1] ELSE rest

\* the dead-end branch of choose_direction (valid_dirs empty)
DeadEnd(gh, g) ==
  LET rev == OPPOSITE(gh.direction)
      any == SelectSeq(DirList, LAMBDA d : GhostCanMove(gh, g, gh.cell, d))
  IN  IF GhostCanMove(gh, g, gh.cell, rev) THEN rev
      ELSE IF Len(any) > 0 THEN any[1]
      ELSE STOP

\* Ghost.choose_direction: the set of values it can return (more than one
\* only where random.choice decides)
choose_direction(gh, g, target_cell) ==
  LET valid_dirs == ValidDirs(gh, g)
  IN  IF Len(valid_dirs) = 0 THEN {DeadEnd(gh, g)}
      ELSE IF gh.state = GHOST_VULNERABLE /\ gh.ghost_type = "chaser"
           THEN {FirstMax(valid_dirs, gh.cell, target_cell)}
      ELSE IF gh.ghost_type = "random"
           THEN {valid_dirs[i] : i \in 1..Len(valid_dirs)}
      ELSE {FirstMin(valid_dirs, gh.cell, target_cell)}


\* the vulnerable timer with `< 0` for `<= 0`: one more tick in Vulnerable
\* when the timer reaches 0 exactly
GhostTimerStrict(gh, dt_ms) ==
  IF gh.state = GHOST_VULNERABLE
  THEN IF gh.vulnerable_timer - dt_ms < 0
       THEN [gh EXCEPT !.vulnerable_timer = gh.vulnerable_timer - dt_ms,
                       !.state = GHOST_NORMAL, !.speed = GhostSpeed]
       ELSE [gh EXCEPT !.vulnerable_timer = gh.vulnerable_timer - dt_ms]
  ELSE gh

\* Ghost.update, "Update vulnerable timer"
GhostTimer(gh, dt_ms) ==
  IF gh.state = GHOST_VULNERABLE
  THEN IF gh.vulnerable_timer - dt_ms <= 0
       THEN [gh EXCEPT !.vulnerable_timer = gh.vulnerable_timer - dt_ms,
                       !.state = GHOST_NORMAL, !.speed = GhostSpeed]
       ELSE [gh EXCEPT !.vulnerable_timer = gh.vulnerable_timer - dt_ms]
  ELSE gh

\* Ghost.update, "Decide direction at cell centers", with d the value
\* choose_direction returned
GhostCommit(gh, g, d) ==
  LET c2 == IF d # STOP /\ GhostCanMove(gh, g, gh.cell, d)
            THEN _next_cell(gh.cell, d) ELSE gh.cell
  IN  [gh EXCEPT !.pos = grid_to_pix(gh.cell), !.direction = d, !.cell = c2]

\* Ghost.update, "Move toward center"
GhostMove(gh) ==
  LET speed == IF gh.state = GHOST_VULNERABLE THEN (gh.speed * 6) \div 10 ELSE gh.speed
  IN  [gh EXCEPT !.pos = MoveToward(gh.pos, grid_to_pix(gh.cell), speed)]

\* Ghost.update: the target handed to choose_direction
GhostTarget(gh, player_cell) == IF gh.state = GHOST_EYES THEN gh.home_cell ELSE player_cell

\* Ghost.update: the values `self.direction = self.choose_direction(maze, target)` can assign
DecideDirection(gh, g, player_cell) == choose_direction(gh, g, GhostTarget(gh, player_cell))

\* Ghost.update: the set of ghosts it can leave behind
GhostUpdate(gh, g, player_cell, dt_ms) ==
  LET g1 == GhostTimer(gh, dt_ms)
      committed == IF at_center_of_cell(g1)
                   THEN {GhostCommit(g1, g, d) : d \in DecideDirection(g1, g, player_cell)}
                   ELSE {g1}
  IN  UNION { LET g3 == GhostMove(g2)
              IN  IF g3.state = GHOST_EYES /\ g3.cell = g3.home_cell
                  THEN {revive_if_at_home(g3, d) : d \in Dirs}
                  ELSE {g3}
              : g2 \in committed }

-----------------------------------------------------------------------------
(* Game                                                                    *)

player_start == <<13, 23>>
BlinkyStart == <<13, 14>>
PinkyStart == <<14, 14>>
StartLives == 3
power_duration_ms == 6000
ghost_score_base == 200
DotScore == 10
PowerScore == 50

RECURSIVE Pow2(_)
Pow2(n) == IF n <= 0 THEN 1 ELSE 2 * Pow2(n - 1)

\* pairs of outcomes of the random.choice in Ghost.reset, one per ghost
DirPairs == Dirs \X Dirs

\* a record of what one method call did to Ghost.state
Snap(by, gh) == [by |-> by, state |-> gh.state, cell |-> gh.cell]

SnapAll(tr, by, gs) == [i \in DOMAIN gs |-> Append(tr[i], Snap(by, gs[i]))]

\* distance(player.pos, g.pos) < CELL_SIZE * 0.6: the set of values the test
\* can have.  At a distance of exactly 14.4 pixels the outcome depends on the
\* rounding of the floating-point positions, so both values are possible.
Proximity(ppos, gpos) ==
  LET dx == Abs(ppos[1] - gpos[1])
      dy == Abs(ppos[2] - gpos[2])
      t == (CELL_SIZE * PixUnit * 6) \div 10
  IN  IF dx > t \/ dy > t THEN {FALSE}
      ELSE IF dx * dx + dy * dy < t * t THEN {TRUE}
      ELSE IF dx * dx + dy * dy = t * t THEN BOOLEAN
      ELSE {FALSE}

\* Maze(): a fresh maze
NewMazeGrid == MazeGrid
NewMazeDots == MazeDots(MazeGrid)


\* Game.reset_positions skipped once the session is over
reset_positions_if_alive(a, rd) ==
  IF a.over THEN a
  ELSE LET gs == [i \in DOMAIN a.ghosts |-> GhostReset(a.ghosts[i], rd[i])]
       IN  [a EXCEPT !.player = PlayerReset(a.player.start_cell),
                     !.ghosts = gs,
                     !.trail = SnapAll(a.trail, "reset", gs)]

\* Game.reset_positions on the session record a; rd[i] is the direction
\* Ghost.reset draws for ghost i
reset_positions(a, rd) ==
  LET gs == [i \in DOMAIN a.ghosts |-> GhostReset(a.ghosts[i], rd[i])]
  IN  [a EXCEPT !.player = PlayerReset(a.player.start_cell),
                !.ghosts = gs,
                !.trail = SnapAll(a.trail, "reset", gs)]

\* Game.next_level without `self.level += 1`
next_level_same_level(a, rd) ==
  reset_positions([a EXCEPT !.grid = NewMazeGrid, !.dots = NewMazeDots], rd)

\* Game.next_level
next_level(a, rd) ==
  reset_positions([a EXCEPT !.grid = NewMazeGrid, !.dots = NewMazeDots,
                            !.level = a.level + 1], rd)

\* Game.update, "Eat pellets"
EatPellets(a) ==
  LET r == EatRet(a.grid, a.player.cell)
      a1 == [a EXCEPT !.ate = r,
                      !.grid = EatGrid(a.grid, a.player.cell),
                      !.dots = EatDots(a.grid, a.dots, a.player.cell)]
  IN  IF r = "dot" THEN [a1 EXCEPT !.score = a.score + DotScore]
      ELSE IF r = "power"
      THEN LET gs == [i \in DOMAIN a.ghosts |-> set_vulnerable(a.ghosts[i], power_duration_ms)]
           IN  [a1 EXCEPT !.score = a.score + PowerScore,
                          !.combo = 0,
                          !.ghosts = gs,
                          !.trail = SnapAll(a.trail, "set_vulnerable", gs)]
      ELSE a1

\* the award of a doubled exponent: 2 ** combo instead of 2 ** (combo - 1)
GhostAwardDoubled(combo) == ghost_score_base * Pow2(combo)

\* ghost_score_base * (2 ** (self.ghost_combo - 1)), after the increment of ghost_combo
GhostAward(combo) == ghost_score_base * Pow2(combo - 1)


\* the collision loop without the `break` after a life is lost: the ghosts
\* that follow are still tested, with the proximity found before the reset
RECURSIVE CollidePassNoBreak(_, _, _, _)
CollidePassNoBreak(i, a, prox, rd) ==
  IF i > Len(a.ghosts) THEN a
  ELSE LET gh == a.ghosts[i]
       IN  IF ~prox[i] THEN CollidePassNoBreak(i + 1, a, prox, rd)
           ELSE IF gh.state = GHOST_VULNERABLE
           THEN LET add == GhostAward(a.combo + 1)
                    e == eaten(gh)
                IN  CollidePassNoBreak(i + 1,
                      [a EXCEPT !.ghosts[i] = e,
                                !.combo = a.combo + 1,
                                !.score = a.score + add,
                                !.hits = Append(a.hits, [g |-> i, kind |-> "eaten", add |-> add]),
                                !.trail[i] = Append(a.trail[i], Snap("eaten", e))],
                      prox, rd)
           ELSE IF gh.state = GHOST_NORMAL
           THEN LET a1 == [a EXCEPT !.lives = a.lives - 1,
                                    !.over = IF a.lives - 1 <= 0 THEN TRUE ELSE a.over,
                                    !.hits = Append(a.hits, [g |-> i, kind |-> "life", add |-> 0]),
                                    !.broke = TRUE]
                IN  CollidePassNoBreak(i + 1, reset_positions(a1, rd), prox, rd)
           ELSE CollidePassNoBreak(i + 1,
                  [a EXCEPT !.hits = Append(a.hits, [g |-> i, kind |-> "eyes", add |-> 0])],
                  prox, rd)

\* Game.update, "Collisions with ghosts": the loop from ghost i on; prox[i]
\* is the proximity test of ghost i, rd the directions drawn if
\* reset_positions runs.  a.broke records the break.
RECURSIVE CollidePass(_, _, _, _)
CollidePass(i, a, prox, rd) ==
  IF i > Len(a.ghosts) \/ a.broke THEN a
  ELSE LET gh == a.ghosts[i]
       IN  IF ~prox[i] THEN CollidePass(i + 1, a, prox, rd)
           ELSE IF gh.state = GHOST_VULNERABLE
           THEN LET add == GhostAward(a.combo + 1)
                    e == eaten(gh)
                IN  CollidePass(i + 1,
                      [a EXCEPT !.ghosts[i] = e,
                                !.combo = a.combo + 1,
                                !.score = a.score + add,
                                !.hits = Append(a.hits, [g |-> i, kind |-> "eaten", add |-> add]),
                                !.trail[i] = Append(a.trail[i], Snap("eaten", e))],
                      prox, rd)
           ELSE IF gh.state = GHOST_NORMAL
           THEN LET a1 == [a EXCEPT !.lives = a.lives - 1,
                                    !.over = IF a.lives - 1 <= 0 THEN TRUE ELSE a.over,
                                    !.hits = Append(a.hits, [g |-> i, kind |-> "life", add |-> 0]),
                                    !.broke = TRUE]
                IN  reset_positions(a1, rd)
           ELSE CollidePass(i + 1,
                  [a EXCEPT !.hits = Append(a.hits, [g |-> i, kind |-> "eyes", add |-> 0])],
                  prox, rd)


\* "Level complete" with `< 0` for `<= 0`: the level never completes
LevelCompleteStrict(a, rl) == IF a.dots < 0 THEN next_level(a, rl) ELSE a

\* Game.update, "Level complete"
LevelComplete(a, rl) == IF a.dots <= 0 THEN next_level(a, rl) ELSE a

\* the session as a record, as Game.update finds it
Session ==
  [grid |-> grid, dots |-> dots_total, player |-> player, ghosts |-> ghosts,
   score |-> score, lives |-> lives, level |-> level, combo |-> ghost_combo,
   over |-> game_over, ate |-> None, hits |-> <<>>,
   trail |-> [i \in DOMAIN ghosts |-> <<Snap("start", ghosts[i])>>], broke |-> FALSE]

\* the assignment of a session record to the variables
Store(a) ==
  /\ grid' = a.grid
  /\ dots_total' = a.dots
  /\ player' = a.player
  /\ ghosts' = a.ghosts
  /\ score' = a.score
  /\ lives' = a.lives
  /\ level' = a.level
  /\ ghost_combo' = a.combo
  /\ game_over' = a.over
  /\ ate' = a.ate
  /\ hits' = a.hits
  /\ trail' = a.trail

NoDirs == <<UP, UP>>

\* Game.update past the game_over test
Tick(dt_ms, keys) ==
  LET p1 == PlayerUpdate(player, grid, keys)
  IN  \E g1 \in GhostUpdate(ghosts[1], grid, p1.cell, dt_ms),
         g2 \in GhostUpdate(ghosts[2], grid, p1.cell, dt_ms) :
        LET gs1 == <<g1, g2>>
            a1 == [Session EXCEPT !.player = p1, !.ghosts = gs1,
                                  !.trail = SnapAll(Session.trail, "update", gs1)]
            a2 == EatPellets(a1)
        IN  \E prox \in Proximity(a2.player.pos, a2.ghosts[1].pos)
                          \X Proximity(a2.player.pos, a2.ghosts[2].pos) :
            \E rd \in (IF CollidePass(1, a2, prox, NoDirs).broke THEN DirPairs ELSE {NoDirs}) :
              LET a3 == CollidePass(1, a2, prox, rd)
              IN  \E rl \in (IF a3.dots <= 0 THEN DirPairs ELSE {NoDirs}) :
                    Store(LevelComplete(a3, rl))

\* bound on the number of Game.update calls explored
MaxTicks == 5

\* the values of dt_ms explored: a normal 60 FPS frame and a stalled one
DtSet == {17, 3000}

\* the key states explored (one of them holds two keys down)
KeySets == {{}, {UP}, {DOWN, RIGHT}}

\* Game.update without its first two lines: the tick runs whatever game_over is
UpdateNoFreeze ==
  /\ pc = "update"
  /\ ticks < MaxTicks
  /\ pc' = "restart"
  /\ ticks' = ticks + 1
  /\ call' = <<"update">>
  /\ ret' = IF game_over THEN <<"early">> ELSE <<None>>
  /\ \E dt_ms \in DtSet, keys \in KeySets : Tick(dt_ms, keys)

\* Game.update; ret is "early" when the call returned at `if self.game_over`
Update ==
  /\ pc = "update"
  /\ ticks < MaxTicks
  /\ pc' = "restart"
  /\ ticks' = ticks + 1
  /\ call' = <<"update">>
  /\ ret' = IF game_over THEN <<"early">> ELSE <<None>>
  /\ IF game_over
     THEN UNCHANGED <<session, ate, hits, trail>>
     ELSE \E dt_ms \in DtSet, keys \in KeySets : Tick(dt_ms, keys)

\* Game.__init__: the session it builds; rd are the directions the two
\* Ghost.reset calls draw
NewGame(rd) ==
  [grid |-> NewMazeGrid, dots |-> NewMazeDots,
   player |-> PlayerReset(player_start),
   ghosts |-> << NewGhost("chaser", BlinkyStart, rd[1]), NewGhost("random", PinkyStart, rd[2]) >>,
   score |-> 0, lives |-> StartLives, level |-> 1, combo |-> 0, over |-> FALSE,
   ate |-> None, hits |-> <<>>,
   trail |-> << <<[by |-> "start", state |-> GHOST_NORMAL, cell |-> BlinkyStart]>>,
                <<[by |-> "start", state |-> GHOST_NORMAL, cell |-> PinkyStart]>> >>,
   broke |-> FALSE]


\* Game.handle_restart without the game_over test: R restarts at any time
HandleRestartAlways ==
  /\ pc = "restart"
  /\ pc' = "update"
  /\ call' = <<"handle_restart">>
  /\ \E r \in BOOLEAN :
       IF r
       THEN /\ \E rd \in DirPairs : Store(NewGame(rd))
            /\ ret' = <<"restarted">>
       ELSE /\ UNCHANGED <<session, ate, hits, trail>>
            /\ ret' = <<None>>
  /\ UNCHANGED ticks

\* Game.handle_restart; r is keys[pygame.K_r]; ret is "restarted" when
\* self.__init__() ran
HandleRestart ==
  /\ pc = "restart"
  /\ pc' = "update"
  /\ call' = <<"handle_restart">>
  /\ \E r \in BOOLEAN :
       IF game_over /\ r
       THEN /\ \E rd \in DirPairs : Store(NewGame(rd))
            /\ ret' = <<"restarted">>
       ELSE /\ UNCHANGED <<session, ate, hits, trail>>
            /\ ret' = <<None>>
  /\ UNCHANGED ticks

\* the state Game() leaves, at the top of the Game.run loop
Init ==
  /\ \E rd \in DirPairs :
       LET a == NewGame(rd)
       IN  /\ grid = a.grid
           /\ dots_total = a.dots
           /\ player = a.player
           /\ ghosts = a.ghosts
           /\ score = a.score
           /\ lives = a.lives
           /\ level = a.level
           /\ ghost_combo = a.combo
           /\ game_over = a.over
           /\ ate = a.ate
           /\ hits = a.hits
           /\ trail = a.trail
  /\ pc = "update"
  /\ ticks = 0
  /\ call = <<>>
  /\ ret = <<>>

\* Game.run
Next == Update \/ HandleRestart

Spec == Init /\ [][Next]_vars

\* every position is on the row or on the column of the centre it moves to
PosAligned ==
  /\ player.pos[1] = grid_to_pix(player.cell)[1] \/ player.pos[2] = grid_to_pix(player.cell)[2]
  /\ \A i \in DOMAIN ghosts :
       ghosts[i].pos[1] = grid_to_pix(ghosts[i].cell)[1]
         \/ ghosts[i].pos[2] = grid_to_pix(ghosts[i].cell)[2]

-----------------------------------------------------------------------------
(* Sessions under test.  The shipped maze keeps Normal and Vulnerable       *)
(* ghosts inside the ghost house, so a session started by Game() never      *)
(* brings the Player and a ghost together.  The contracts of Game.update    *)
(* about collisions, lives, combo and level completion are therefore        *)
(* checked on sessions whose fields a test has set after Game(): the ghosts *)
(* placed in the maze, the lives, and the pellets still on the grid.        *)

\* the grid of a maze in which only the pellets of the cells in P are left
GridWith(P) ==
  [y \in 0..(ROWS - 1) |->
     [x \in 0..(COLS - 1) |->
        IF MazeGrid[y][x] \in {DOT, POWER} /\ <<x, y>> \notin P THEN EMPTY ELSE MazeGrid[y][x]]]

\* a ghost placed at the centre of a cell
Placed(gh, cell, state, d) ==
  [gh EXCEPT !.cell = cell, !.pos = grid_to_pix(cell), !.direction = d, !.state = state,
             !.speed = IF state = GHOST_EYES THEN EyesSpeed ELSE GhostSpeed,
             !.vulnerable_timer = IF state = GHOST_VULNERABLE THEN power_duration_ms ELSE 0]

\* where the Player is placed: below the power pellet of cell <<1, 3>>
TestPlayerCell == <<1, 4>>

\* placements of Blinky (chaser): on the Player, one cell above it, above its home
BlinkyPlaces ==
  { <<TestPlayerCell, GHOST_VULNERABLE, UP>>,
    <<TestPlayerCell, GHOST_NORMAL, UP>>,
    <<(<<1, 3>>), GHOST_NORMAL, DOWN>>,
    <<(<<13, 13>>), GHOST_EYES, DOWN>> }

\* placements of Pinky (random): on the Player, in its start cell, above its home
PinkyPlaces ==
  { <<TestPlayerCell, GHOST_VULNERABLE, UP>>,
    <<TestPlayerCell, GHOST_NORMAL, UP>>,
    <<PinkyStart, GHOST_NORMAL, UP>>,
    <<(<<14, 13>>), GHOST_EYES, DOWN>> }

\* the pellets left on the grid
PelletSets == { {<<1, 3>>}, {<<1, 3>>, <<1, 5>>} }

LivesSet == {1, StartLives}

InitScenario ==
  /\ \E b \in BlinkyPlaces, k \in PinkyPlaces, P \in PelletSets, n \in LivesSet :
       LET a == NewGame(NoDirs)
           gs == << Placed(a.ghosts[1], b[1], b[2], b[3]), Placed(a.ghosts[2], k[1], k[2], k[3]) >>
       IN  /\ grid = GridWith(P)
           /\ dots_total = MazeDots(GridWith(P))
           /\ player = [PlayerReset(player_start) EXCEPT !.cell = TestPlayerCell,
                                                          !.pos = grid_to_pix(TestPlayerCell)]
           /\ ghosts = gs
           /\ score = 0
           /\ lives = n
           /\ level = 1
           /\ ghost_combo = 0
           /\ game_over = FALSE
           /\ ate = None
           /\ hits = <<>>
           /\ trail = [i \in 1..2 |-> <<Snap("start", gs[i])>>]
  /\ pc = "update"
  /\ ticks = 0
  /\ call = <<>>
  /\ ret = <<>>

SpecScenario == InitScenario /\ [][Next]_vars

-----------------------------------------------------------------------------
(* A Maze on its own, driven by Maze.eat calls                              *)

\* the cells eat is called with: dots, power pellets, a wall, a gate, empty
\* tiles, a ghost marker, and cells outside the grid on each side
EatCells ==
  { <<1, 1>>, <<2, 1>>, <<1, 2>>, <<1, 3>>, <<1, 4>>, <<1, 5>>, <<26, 3>>,
    <<0, 0>>, <<13, 12>>, <<13, 14>>, <<12, 14>>, <<3, 30>>,
    <<-1, 14>>, <<28, 14>>, <<5, -1>>, <<5, 31>> }

\* a fresh maze, or one on which only a few pellets are left
InitMaze ==
  /\ \E P \in PelletSets \cup {AllCells} :
       /\ grid = GridWith(P)
       /\ dots_total = MazeDots(GridWith(P))
  /\ player = PlayerReset(player_start)
  /\ ghosts = NewGame(NoDirs).ghosts
  /\ score = 0
  /\ lives = StartLives
  /\ level = 1
  /\ ghost_combo = 0
  /\ game_over = FALSE
  /\ ate = None
  /\ hits = <<>>
  /\ trail = NewGame(NoDirs).trail
  /\ pc = "update"
  /\ ticks = 0
  /\ call = <<>>
  /\ ret = <<>>

\* maze.eat(cell)
EatCall ==
  /\ \E cell \in EatCells :
       /\ call' = <<"eat", cell>>
       /\ ret' = <<EatRet(grid, cell)>>
       /\ grid' = EatGrid(grid, cell)
       /\ dots_total' = EatDots(grid, dots_total, cell)
  /\ UNCHANGED <<player, ghosts, score, lives, level, ghost_combo, game_over,
                 pc, ticks, ate, hits, trail>>

SpecMaze == InitMaze /\ [][EatCall]_vars

\* C1, in every state: remaining_pellets() is the number of DOT and POWER
\* tiles of the grid, and is not negative
C1_CountExact == dots_total = MazeDots(grid) /\ dots_total >= 0

\* C1, in every eat call: the count does not increase, and a call on a cell
\* that holds no pellet (empty, wall, gate, outside the grid) returns None
\* and leaves grid and count as they were
C1_EatStep ==
  LET cell == call'[2]
      pellet == InGrid(cell) /\ grid[cell[2]][cell[1]] \in {DOT, POWER}
  IN  /\ dots_total' <= dots_total
      /\ ~pellet => (ret' = <<None>> /\ grid' = grid /\ dots_total' = dots_total)
      /\ pellet => (ret' # <<None>> /\ dots_total' = dots_total - 1)

\* C1: over any sequence of Maze.eat calls, remaining_pellets() equals the
\* number of DOT plus POWER tiles in the grid, never increases, never goes
\* below zero, and an eat on a cell without a pellet returns None and changes
\* neither the grid nor the count
C1_EatKeepsCount == [](C1_CountExact) /\ [][C1_EatStep]_vars

\* C1 witness: the last pellet has been eaten and a further eat on the then
\* empty cell returned None with the count at zero
C1_Witness ==
  /\ call # <<>>
  /\ dots_total = 0
  /\ ret = <<None>>
  /\ InGrid(call[2])
  /\ MazeGrid[call[2][2]][call[2][1]] \in {DOT, POWER}

-----------------------------------------------------------------------------
(* Properties of Game.update                                                *)

\* a step that is a call of Game.update which ran the tick
RunningTick == pc = "update" /\ ~game_over

\* the ghost awards of a collision pass, in the order they were made
AwardsOf(h) == SelectSeq(h, LAMBDA e : e.kind = "eaten")

\* a collision pass met a Normal ghost in proximity
LifeHit(h) == \E k \in 1..Len(h) : h[k].kind = "life"

\* the score of the pellet eaten
PelletValue(r) == IF r = "dot" THEN 10 ELSE IF r = "power" THEN 50 ELSE 0

\* within 2 pixels of the centre of the logical cell on both axes
NearCentre(a) ==
  /\ Abs(a.pos[1] - (a.cell[1] * 24 + 12) * 100) < 200
  /\ Abs(a.pos[2] - (a.cell[2] * 24 + 12) * 100) < 200

C2_Step ==
  RunningTick =>
    LET c0 == IF ate' = "power" THEN 0 ELSE ghost_combo
        aw == AwardsOf(hits')
        n == Len(aw)
    IN  /\ \A k \in 1..n : aw[k].add = 200 * 2 ^ (c0 + k - 1)
        /\ ghost_combo' = c0 + n
        /\ score' = score + PelletValue(ate') + 200 * (2 ^ (c0 + n) - 2 ^ c0)
        /\ (c0 = 0 /\ n = 2) =>
             (aw[1].g = 1 /\ aw[1].add = 200 /\ aw[2].g = 2 /\ aw[2].add = 400
                /\ ghost_combo' = 2)

\* C2: in every tick a power pellet resets ghost_combo to 0 before the
\* collisions are resolved, and the k-th vulnerable ghost eaten since the
\* reset adds ghost_score_base * 2^(k-1) to the score; two ghosts eaten in
\* one tick after a reset score 200 for the first in list order and 400 for
\* the second, and ghost_combo ends at 2
C2_ComboScoring == [][C2_Step]_vars

\* C2 witness: a tick ate the power pellet and then both ghosts, in list order
C2_Witness ==
  /\ ate = "power"
  /\ hits = << [g |-> 1, kind |-> "eaten", add |-> 200], [g |-> 2, kind |-> "eaten", add |-> 400] >>
  /\ ghost_combo = 2

\* the Player and the ghosts are at their start cells, the ghosts Normal
AllAtStart ==
  /\ player.cell = player.start_cell
  /\ player.pos = grid_to_pix(player.start_cell)
  /\ \A i \in DOMAIN ghosts :
       /\ ghosts[i].cell = ghosts[i].start_cell
       /\ ghosts[i].pos = grid_to_pix(ghosts[i].start_cell)
       /\ ghosts[i].state = GHOST_NORMAL

C3_OriginalStep ==
  (RunningTick /\ LifeHit(hits')) =>
    /\ lives' = lives - 1
    /\ AllAtStart'
    /\ player'.direction = STOP
    /\ \A i \in DOMAIN ghosts : ghosts'[i].direction = STOP

\* C3 as stated: a tick with a Normal-state collision decrements lives by 1
\* and leaves Player and every Ghost at their start cells, Normal, with
\* direction STOP
C3_AsStated == [][C3_OriginalStep]_vars

C3_Step ==
  (RunningTick /\ LifeHit(hits')) =>
    /\ lives' = lives - 1
    /\ AllAtStart'
    /\ player'.direction = STOP
    /\ player'.next_direction = STOP
    /\ \A i \in DOMAIN ghosts : ghosts'[i].direction \in {UP, DOWN, LEFT, RIGHT}

\* C3: a tick with a Normal-state collision decrements lives by exactly 1 and
\* leaves the Player at its start cell with direction STOP and every Ghost
\* at its start cell in state Normal with a cardinal direction drawn at
\* random (never STOP)
C3_LifeLossReset == [][C3_Step]_vars

\* C3 witness: a tick lost the first of three lives to a Normal ghost
C3_Witness ==
  /\ LifeHit(hits)
  /\ lives = 2
  /\ ~game_over
  /\ AllAtStart

C4_Step ==
  RunningTick =>
    LET left == IF ate' = None THEN dots_total ELSE dots_total - 1
        lost == IF LifeHit(hits') THEN 1 ELSE 0
        aw == AwardsOf(hits')
    IN  /\ left <= 0 =>
             /\ grid' = MazeGrid
             /\ dots_total' = 262
             /\ level' = level + 1
             /\ AllAtStart'
        /\ left > 0 => (level' = level /\ dots_total' = left)
        /\ lives' = lives - lost
        /\ game_over' = (lives' <= 0)
        /\ score' = score + PelletValue(ate')
                      + (IF Len(aw) >= 1 THEN aw[1].add ELSE 0)
                      + (IF Len(aw) >= 2 THEN aw[2].add ELSE 0)

\* C4: the tick that brings remaining_pellets() to 0 rebuilds the maze with
\* all 262 pellets, increments level by exactly 1 and leaves Player and
\* Ghosts at their start cells; lives, score and game_over change in that
\* tick only by what the pellet and the collisions of the tick account for
C4_LevelTransition == [][C4_Step]_vars

\* C4 witness: the last pellet was eaten, the maze is full again at level 2
C4_Witness ==
  /\ level = 2
  /\ ate = "power"
  /\ dots_total = 262
  /\ grid = MazeGrid
  /\ score = 50
  /\ lives = 3
  /\ AllAtStart

C8_OriginalStep ==
  pc = "update" =>
    /\ player'.cell # player.cell => NearCentre(player)
    /\ player'.direction # player.direction => NearCentre(player)
    /\ \A i \in DOMAIN ghosts : ghosts'[i].cell # ghosts[i].cell => NearCentre(ghosts[i])

\* C8 as stated: in every tick the logical cell of the Player or of a Ghost
\* changes only if the actor was at its cell centre at the start of the
\* tick, and so does the Player's direction
C8_AsStated == [][C8_OriginalStep]_vars

C8_Step ==
  pc = "update" =>
    IF LifeHit(hits') \/ level' # level
    THEN /\ player'.cell = player.start_cell
         /\ player'.direction = STOP
         /\ \A i \in DOMAIN ghosts : ghosts'[i].cell = ghosts[i].start_cell
    ELSE C8_OriginalStep

\* C8: in every tick that does not reset the positions (no life-loss
\* collision, no level completion) the logical cell of the Player or of a
\* Ghost changes only if the actor was at its cell centre at the start of
\* the tick, and so does the Player's direction; a tick that resets the
\* positions puts every actor on its start cell and the Player's direction
\* to STOP wherever the actors were
C8_CentreCommit == [][C8_Step]_vars

\* C8 witness: the Player has left its cell for the next one and is between
\* the two centres, in a session without reset
C8_Witness ==
  /\ player.cell = <<1, 3>>
  /\ player.direction = UP
  /\ ~NearCentre(player)
  /\ ticks >= 2
  /\ level = 1
  /\ ~LifeHit(hits)

C9_Allowed(a, b, home) ==
  /\ (b.state = GHOST_EYES /\ a.state # GHOST_EYES)
       => (a.state = GHOST_VULNERABLE /\ b.by = "eaten")
  /\ b.by = "eaten" => (a.state = GHOST_VULNERABLE /\ b.state = GHOST_EYES)
  /\ (b.state = GHOST_VULNERABLE /\ a.state # GHOST_VULNERABLE)
       => (a.state = GHOST_NORMAL /\ b.by = "set_vulnerable")
  /\ b.by = "set_vulnerable"
       => (ate = "power"
           /\ b.state = IF a.state = GHOST_EYES THEN GHOST_EYES ELSE GHOST_VULNERABLE)
  /\ (a.state = GHOST_EYES /\ b.state # GHOST_EYES)
       => (b.state = GHOST_NORMAL
           /\ (b.by = "reset" \/ (b.by = "update" /\ b.cell = home)))

\* C9: every assignment to a ghost's state during a tick is one of: to Eyes
\* from Vulnerable by the collision with the Player; to Vulnerable from
\* Normal or Vulnerable by the power pellet (an Eyes ghost stays Eyes); from
\* Eyes to Normal when its cell is its home cell or by a reset; Normal to
\* Eyes and Eyes to Vulnerable never occur
C9_Lifecycle ==
  \A i \in DOMAIN trail :
    /\ trail[i][Len(trail[i])].state = ghosts[i].state
    /\ \A k \in 1..(Len(trail[i]) - 1) :
         C9_Allowed(trail[i][k], trail[i][k + 1], ghosts[i].home_cell)

\* C9 witness: in one tick a Normal ghost was made Vulnerable by the power
\* pellet and eaten, while the other, in Eyes, stayed in Eyes
C9_Witness ==
  \E i, j \in DOMAIN trail :
    /\ Len(trail[i]) = 4
    /\ trail[i][2].state = GHOST_NORMAL
    /\ trail[i][3] = [by |-> "set_vulnerable", state |-> GHOST_VULNERABLE, cell |-> trail[i][2].cell]
    /\ trail[i][4].by = "eaten"
    /\ trail[i][4].state = GHOST_EYES
    /\ Len(trail[j]) = 3
    /\ trail[j][2].state = GHOST_EYES
    /\ trail[j][3].by = "set_vulnerable"
    /\ trail[j][3].state = GHOST_EYES

\* C10: a call of Game.update made while game_over is true changes nothing
\* of the session: maze, Player, Ghosts, score, lives, level, combo and
\* game_over stay as they are
C10_GameOverFreezes ==
  [][(pc = "update" /\ game_over) =>
       UNCHANGED <<grid, dots_total, player, ghosts, score, lives, level,
                   ghost_combo, game_over>>]_vars

\* C10 witness: Game.update was called in a session that is over, and
\* returned at once
C10_Witness ==
  /\ game_over
  /\ lives = 0
  /\ call = <<"update">>
  /\ ret = <<"early">>

-----------------------------------------------------------------------------
(* Contracts of single methods: the arguments are drawn by Init, the action *)
(* applies the method on a fresh maze and records what it returned          *)

\* the session Game() builds, with the directions of Ghost.reset fixed
FreshSession ==
  LET a == NewGame(NoDirs)
  IN  /\ grid = a.grid
      /\ dots_total = a.dots
      /\ player = a.player
      /\ ghosts = a.ghosts
      /\ score = a.score
      /\ lives = a.lives
      /\ level = a.level
      /\ ghost_combo = a.combo
      /\ game_over = a.over
      /\ ate = a.ate
      /\ hits = a.hits
      /\ trail = a.trail
      /\ pc = "update"
      /\ ticks = 0

\* the cells a ghost is placed on: every cell of the grid
ChooseCells == AllCells

\* the cells of the Player handed to Ghost.update
ChooseTargets == { <<1, 1>>, <<13, 23>>, <<26, 14>> }

\* a ghost of the given type at the centre of a cell
GhostAt(type, cell, state, d) ==
  Placed(NewGhost(type, IF type = "chaser" THEN BlinkyStart ELSE PinkyStart, d), cell, state, d)

InitChoose ==
  /\ FreshSession
  /\ \E type \in {"chaser", "random"}, cell \in ChooseCells, d \in Dirs \cup {STOP},
        state \in {GHOST_NORMAL, GHOST_VULNERABLE, GHOST_EYES}, t \in ChooseTargets :
       call = <<"decide_direction", GhostAt(type, cell, state, d), t>>
  /\ ret = <<>>

\* the direction Ghost.update assigns at a cell centre
ApplyChoose ==
  /\ call[1] = "decide_direction"
  /\ ret = <<>>
  /\ \E d \in DecideDirection(call[2], grid, call[3]) : ret' = <<d>>
  /\ UNCHANGED <<session, pc, ticks, ate, hits, trail, call>>

SpecChoose == InitChoose /\ [][ApplyChoose]_vars

\* the tile of a cell of the shipped layout, by column and row
Tile(x, y) == MAZE_LAYOUT[y + 1][x + 1]

\* the neighbour of a cell in a direction, the column wrapped around
Neighbour(cell, d) ==
  << IF cell[1] + d[1] = -1 THEN COLS - 1 ELSE IF cell[1] + d[1] = COLS THEN 0 ELSE cell[1] + d[1],
     cell[2] + d[2] >>

\* a step is legal: the neighbour is in a row of the grid, is not a wall, and
\* is not a gate unless the actor is a ghost in Eyes
LegalStep(cell, d, eyes) ==
  LET n == Neighbour(cell, d)
  IN  /\ n[2] >= 0
      /\ n[2] < ROWS
      /\ Tile(n[1], n[2]) # "#"
      /\ Tile(n[1], n[2]) = "=" => eyes

Reverse(d) == << 0 - d[1], 0 - d[2] >>

\* the non-reverse directions that are legal for the ghost of the call
Candidates(gh) ==
  {d \in {UP, DOWN, LEFT, RIGHT} :
     d # Reverse(gh.direction) /\ LegalStep(gh.cell, d, gh.state = GHOST_EYES)}

\* C5: a choose_direction evaluated with a direction other than STOP returns
\* the opposite of that direction only if none of the other three cardinal
\* directions is legal, whatever the ghost's type and state
C5_NoReverseUnlessDeadEnd ==
  (call[1] = "decide_direction" /\ ret # <<>> /\ call[2].direction # STOP)
    => (ret[1] = Reverse(call[2].direction) => Candidates(call[2]) = {})

\* C5 witness: a ghost moving into a dead end was turned around
C5_Witness ==
  /\ call[1] = "decide_direction"
  /\ call[2].direction # STOP
  /\ ret = <<Reverse(call[2].direction)>>
  /\ Candidates(call[2]) = {}

\* the place of a direction in the fixed order UP, DOWN, LEFT, RIGHT
Rank(d) == IF d = UP THEN 1 ELSE IF d = DOWN THEN 2 ELSE IF d = LEFT THEN 3 ELSE 4

\* Manhattan distance from the neighbour in direction d to the target of the call
KeyOf(gh, pcell, d) ==
  LET n == Neighbour(gh.cell, d)
      t == IF gh.state = GHOST_EYES THEN gh.home_cell ELSE pcell
  IN  Abs(n[1] - t[1]) + Abs(n[2] - t[2])

\* d is the candidate the chaser must pick: the best key (smallest, or
\* largest when Vulnerable), and the first in the fixed order among the best
IsReference(gh, pcell, d) ==
  LET better(a, b) == IF gh.state = GHOST_VULNERABLE THEN a > b ELSE a < b
  IN  /\ d \in Candidates(gh)
      /\ \A e \in Candidates(gh) :
           /\ ~better(KeyOf(gh, pcell, e), KeyOf(gh, pcell, d))
           /\ KeyOf(gh, pcell, e) = KeyOf(gh, pcell, d) => Rank(d) <= Rank(e)

\* the candidates of the call do not all have the same distance to the target
DistinctOptima(gh, pcell) ==
  \E d, e \in Candidates(gh) : KeyOf(gh, pcell, d) # KeyOf(gh, pcell, e)

\* C6: with a candidate available, the chaser's direction is the reference
\* choice (minimum Manhattan distance from the wrapped neighbour to the
\* Player's cell, or to the home cell in Eyes; maximum when Vulnerable; ties
\* to the first of UP, DOWN, LEFT, RIGHT), and where the distances of the
\* candidates differ the Normal and the Vulnerable choice differ
C6_ChaserReference ==
  (call[1] = "decide_direction" /\ ret # <<>> /\ call[2].ghost_type = "chaser"
     /\ Candidates(call[2]) # {})
    => /\ IsReference(call[2], call[3], ret[1])
       /\ (call[2].state = GHOST_NORMAL /\ DistinctOptima(call[2], call[3]))
            => ret[1] \notin DecideDirection([call[2] EXCEPT !.state = GHOST_VULNERABLE], grid, call[3])
       /\ (call[2].state = GHOST_VULNERABLE /\ DistinctOptima(call[2], call[3]))
            => ret[1] \notin DecideDirection([call[2] EXCEPT !.state = GHOST_NORMAL], grid, call[3])

\* C6 witness: a Vulnerable chaser with three candidates, two of them tied
\* at the largest distance, took the first of the two
C6_Witness ==
  /\ call[1] = "decide_direction"
  /\ ret # <<>>
  /\ call[2].ghost_type = "chaser"
  /\ call[2].state = GHOST_VULNERABLE
  /\ Cardinality(Candidates(call[2])) = 3
  /\ DistinctOptima(call[2], call[3])
  /\ \E e \in Candidates(call[2]) :
       e # ret[1] /\ KeyOf(call[2], call[3], e) = KeyOf(call[2], call[3], ret[1])

-----------------------------------------------------------------------------
(* The tunnel: Maze.is_wall and the step of Player.update and Ghost.update  *)

\* the cells is_wall is asked about: the grid and one cell beyond each side
WallQueries == {<<x, y>> : x \in (-1)..COLS, y \in (-1)..ROWS}

InitWrap ==
  /\ FreshSession
  /\ \/ \E cell \in WallQueries : call = <<"is_wall", cell>>
     \/ \E cell \in AllCells, d \in Dirs : call = <<"player_step", cell, d>>
     \/ \E cell \in AllCells, d \in Dirs,
           state \in {GHOST_NORMAL, GHOST_VULNERABLE, GHOST_EYES} :
          call = <<"ghost_step", cell, d, state>>
  /\ ret = <<>>

\* maze.is_wall(cell)
ApplyIsWall ==
  /\ call[1] = "is_wall"
  /\ ret = <<>>
  /\ ret' = <<is_wall(grid, call[2])>>
  /\ UNCHANGED <<session, pc, ticks, ate, hits, trail, call>>

\* the cell Player.update leaves a stopped Player in, at the centre of
\* call[2] with call[3] as the queued direction
ApplyPlayerStep ==
  /\ call[1] = "player_step"
  /\ ret = <<>>
  /\ LET p == [PlayerReset(call[2]) EXCEPT !.next_direction = call[3]]
     IN  ret' = <<PlayerUpdate(p, grid, {}).cell>>
  /\ UNCHANGED <<session, pc, ticks, ate, hits, trail, call>>

\* the cell Ghost.update leaves a ghost in once choose_direction has
\* returned call[3], the ghost at the centre of call[2] in state call[4]
ApplyGhostStep ==
  /\ call[1] = "ghost_step"
  /\ ret = <<>>
  /\ ret' = <<GhostCommit(GhostAt("chaser", call[2], call[4], call[3]), grid, call[3]).cell>>
  /\ UNCHANGED <<session, pc, ticks, ate, hits, trail, call>>

NextWrap == ApplyIsWall \/ ApplyPlayerStep \/ ApplyGhostStep

SpecWrap == InitWrap /\ [][NextWrap]_vars

\* the column a column one beyond the grid stands for
WrapColumn(x) == IF x = -1 THEN COLS - 1 ELSE IF x = COLS THEN 0 ELSE x

\* C7: is_wall answers for column -1 as for column COLS-1 and for column
\* COLS as for column 0, and reports every cell of a row outside the grid as
\* a wall; a step of the Player or of a Ghost lands on the neighbour with
\* the column wrapped and the row unchanged by the wrap, and is taken exactly
\* when that cell is legal
C7_Wraparound ==
  ret # <<>> =>
    /\ call[1] = "is_wall" =>
         ret[1] = IF call[2][2] < 0 \/ call[2][2] >= ROWS THEN TRUE
               ELSE Tile(WrapColumn(call[2][1]), call[2][2]) = "#"
    /\ call[1] = "player_step" =>
         ret[1] = IF LegalStep(call[2], call[3], FALSE)
               THEN << WrapColumn(call[2][1] + call[3][1]), call[2][2] + call[3][2] >>
               ELSE call[2]
    /\ call[1] = "ghost_step" =>
         ret[1] = IF LegalStep(call[2], call[3], call[4] = GHOST_EYES)
               THEN << WrapColumn(call[2][1] + call[3][1]), call[2][2] + call[3][2] >>
               ELSE call[2]

\* C7 witness: the Player stepped LEFT from column 0 of the tunnel row and
\* landed on column COLS-1 of that row
C7_Witness ==
  /\ call = <<"player_step", <<0, 14>>, LEFT>>
  /\ ret = << <<27, 14>> >>

-----------------------------------------------------------------------------
(* Properties of Game.handle_restart and of the session fields              *)

\* the session as Game() builds it, but for the directions of the ghosts
FreshGame ==
  /\ grid = MazeGrid
  /\ dots_total = 262
  /\ player.start_cell = <<13, 23>>
  /\ player.direction = STOP
  /\ player.next_direction = STOP
  /\ ghosts[1].start_cell = <<13, 14>>
  /\ ghosts[2].start_cell = <<14, 14>>
  /\ AllAtStart
  /\ \A i \in DOMAIN ghosts : ghosts[i].vulnerable_timer = 0
  /\ score = 0
  /\ lives = 3
  /\ level = 1
  /\ ghost_combo = 0
  /\ ~game_over

C11_Step ==
  pc = "restart" =>
    /\ ret' = <<"restarted">> => (game_over /\ FreshGame')
    /\ ret' # <<"restarted">> => UNCHANGED session
    /\ ~game_over => (UNCHANGED session /\ ret' = <<None>>)

\* C11: a call of Game.handle_restart reinitializes the session only while
\* game_over is true, and then leaves a fresh maze with all 262 pellets,
\* Player and Ghosts at their start cells, score 0, lives 3, level 1, combo 0
\* and game_over false; a call made while game_over is false leaves every
\* field of the session unchanged
C11_Restart == [][C11_Step]_vars

\* C11 witness: a session that was over has been restarted
C11_Witness ==
  /\ call = <<"handle_restart">>
  /\ ret = <<"restarted">>
  /\ FreshGame
  /\ ticks >= 1

\* a tick in which the Player eats the last pellet of the maze
LastPelletTick == RunningTick /\ dots_total = 1 /\ ate' # None

C12_OriginalStep ==
  LastPelletTick =>
    /\ dots_total' = 0
    /\ level' = level
    /\ score' >= score + PelletValue(ate')

\* C12 as stated: the tick that eats the last pellet ends with
\* remaining_pellets() = 0 and the score credited, the level unchanged; the
\* level transition is left to the next tick
C12_AsStated == [][C12_OriginalStep]_vars

C12_Step ==
  RunningTick =>
    /\ LastPelletTick =>
         /\ score' >= score + PelletValue(ate')
         /\ level' = level + 1
         /\ dots_total' = 262
         /\ grid' = MazeGrid
         /\ AllAtStart'
    /\ level' # level => LastPelletTick

\* C12: the tick that eats the last pellet credits the score and makes the
\* level transition itself, before it returns (maze rebuilt with 262 pellets,
\* level + 1, positions reset); no tick ends with remaining_pellets() = 0,
\* and no other tick changes the level
C12_SameTick == [](dots_total > 0) /\ [][C12_Step]_vars

\* C12 witness: after one single call of Game.update the last pellet is
\* eaten and the session is already at level 2 on a full maze
C12_Witness ==
  /\ ticks = 1
  /\ call = <<"update">>
  /\ ate # None
  /\ level = 2
  /\ dots_total = MazeDots(grid)
  /\ dots_total = 262


\* the sum of the awards of a collision pass
RECURSIVE SumAdd(_)
SumAdd(h) == IF h = <<>> THEN 0 ELSE h[1].add + SumAdd(Tail(h))

C16_Step ==
  RunningTick =>
    LET n == Len(hits')
        c0 == IF ate' = "power" THEN 0 ELSE ghost_combo
    IN  /\ lives' >= lives - 1
        /\ ~LifeHit(hits') => lives' = lives
        /\ LifeHit(hits') =>
             /\ hits'[n].kind = "life"
             /\ \A k \in 1..(n - 1) : hits'[k].kind # "life" /\ hits'[k].g < hits'[n].g
             /\ lives' = lives - 1
             /\ ghost_combo' = c0 + Len(AwardsOf(hits'))
             /\ score' = score + PelletValue(ate') + SumAdd(hits')

\* C16: a tick takes at most one life; the first Normal ghost in list order
\* that is within proximity of the Player ends the collision pass, so the
\* pass handles no ghost after it and lives, score and combo are those the
\* ghosts up to it account for
C16_FirstInOrderWins == [][C16_Step]_vars

\* C16 witness: both ghosts were Normal on the Player's cell (after one tick
\* from the same centre they are less than 4 pixels from the Player); the
\* pass took one life for ghost 1 and did not handle ghost 2
C16_Witness ==
  /\ ticks = 1
  /\ hits = << [g |-> 1, kind |-> "life", add |-> 0] >>
  /\ trail[1][1] = [by |-> "start", state |-> "normal", cell |-> <<1, 4>>]
  /\ trail[2][1] = [by |-> "start", state |-> "normal", cell |-> <<1, 4>>]
  /\ trail[2][2].by = "update"
  /\ trail[2][2].state = "normal"
  /\ lives \in {0, 2}


C17_State ==
  /\ lives \in 0..3
  /\ score >= 0
  /\ game_over <=> (lives = 0)

C17_Step == (game_over /\ (game_over' \/ pc = "update")) => lives' = lives

\* C17: in every state lives is an integer from 0 to 3, score is not
\* negative, and game_over is true exactly when lives is 0; as long as
\* game_over stays true, and in every call of Game.update made while it is
\* true, lives does not change
C17_LivesAndGameOver == [](C17_State) /\ [][C17_Step]_vars

\* C17 witness: the last life is lost, and Game.handle_restart has been
\* called without a restart request: the session is still over, at 0 lives
C17_Witness ==
  /\ game_over
  /\ lives = 0
  /\ call = <<"handle_restart">>
  /\ ret = <<None>>
  /\ ticks >= 2


C18_State ==
  \A i \in DOMAIN ghosts :
    ghosts[i].state = "vulnerable" => ghosts[i].vulnerable_timer > 0

\* within the tick, ghost i was neither re-triggered, nor eaten, nor reset:
\* Ghost.update made the only assignment to its state
OnlyUpdated(tr) == Len(tr) = 2 /\ tr[2].by = "update"

C18_Step ==
  RunningTick =>
    /\ \A i \in DOMAIN ghosts :
         (trail'[i][Len(trail'[i])].by = "set_vulnerable" /\ ghosts'[i].state = "vulnerable")
           => ghosts'[i].vulnerable_timer = 6000
    /\ \E dt_ms \in {17, 3000} :
         \A i \in DOMAIN ghosts :
           (ghosts[i].state = "vulnerable" /\ OnlyUpdated(trail'[i])) =>
             LET left == ghosts[i].vulnerable_timer - dt_ms
             IN  /\ ghosts'[i].vulnerable_timer = left
                 /\ ghosts'[i].state = IF left <= 0 THEN "normal" ELSE "vulnerable"

\* C18: at the end of every tick a Vulnerable ghost has vulnerable_timer > 0.
\* The power pellet sets the timer to the duration D = 6000 ms, and every
\* later tick that neither re-triggers, eats nor resets the ghost takes the
\* tick's dt_ms off it, so the timer is D minus the sum of the dt_ms since
\* the trigger; the ghost is Normal at the end of the first tick that brings
\* the timer to 0 or below, and Vulnerable at the end of every tick before
C18_VulnerableCountdown == [](C18_State) /\ [][C18_Step]_vars

\* C18 witness: a ghost that was Vulnerable at the start of the tick has run
\* out of time in it and is Normal, with the whole duration elapsed
C18_Witness ==
  \E i \in DOMAIN ghosts :
    /\ trail[i][1] = [by |-> "start", state |-> "vulnerable", cell |-> trail[i][1].cell]
    /\ OnlyUpdated(trail[i])
    /\ ghosts[i].state = "normal"
    /\ ghosts[i].vulnerable_timer <= 0
    /\ ticks >= 3


\* the tick ended with a reset of every ghost
GhostsReset(tr) == \A i \in DOMAIN tr : tr[i][Len(tr[i])].by = "reset"

C19_OriginalStep ==
  (RunningTick /\ LifeHit(hits')) =>
    IF lives' = 0
    THEN /\ game_over'
         /\ ~AllAtStart'
         /\ \A i \in DOMAIN trail' : trail'[i][Len(trail'[i])].by # "reset"
    ELSE /\ ~game_over'
         /\ AllAtStart'
         /\ GhostsReset(trail')

\* C19 as stated: a Normal-state collision that brings lives to 0 sets
\* game_over and leaves Player and Ghosts where they are; they are reset to
\* their start cells only when lives remain
C19_AsStated == [][C19_OriginalStep]_vars

C19_Step ==
  (RunningTick /\ LifeHit(hits')) =>
    /\ game_over' = (lives' = 0)
    /\ AllAtStart'
    /\ player'.direction = STOP
    /\ GhostsReset(trail')

\* C19: a Normal-state collision sets game_over exactly when it brings lives
\* to 0, and in both cases resets the Player and every Ghost to their start
\* cells, the ghosts to Normal: the session that is over shows the actors at
\* their start cells
C19_FinalLifeReset == [][C19_Step]_vars

\* C19 witness: the tick that took the last life has set game_over and has
\* reset the Player and the Ghosts
C19_Witness ==
  /\ call = <<"update">>
  /\ ret = <<None>>
  /\ LifeHit(hits)
  /\ lives = 0
  /\ game_over
  /\ AllAtStart
  /\ GhostsReset(trail)

-----------------------------------------------------------------------------
(* Sessions in the tunnel: the Player, or Blinky on its way home in Eyes,   *)
(* arrives at the centre of an end cell of row 14 while moving outward.     *)

TunnelRow == 14

\* the end cells of the tunnel row, each with the direction that leaves the grid
TunnelEnds == { <<(<<0, TunnelRow>>), LEFT>>, <<(<<COLS - 1, TunnelRow>>), RIGHT>> }

\* a Player at the centre of a cell, moving in direction d
PlayerAt(cell, d) ==
  [PlayerReset(player_start) EXCEPT !.cell = cell, !.pos = grid_to_pix(cell),
                                    !.direction = d, !.next_direction = d]

InitTunnel ==
  /\ \E e \in TunnelEnds, eyes \in BOOLEAN, rd \in DirPairs, P \in PelletSets :
       LET a == NewGame(rd)
           gs == << IF eyes THEN Placed(a.ghosts[1], e[1], GHOST_EYES, e[2]) ELSE a.ghosts[1],
                    a.ghosts[2] >>
       IN  /\ grid = GridWith(P)
           /\ dots_total = MazeDots(GridWith(P))
           /\ player = PlayerAt(e[1], e[2])
           /\ ghosts = gs
           /\ score = 0
           /\ lives = StartLives
           /\ level = 1
           /\ ghost_combo = 0
           /\ game_over = FALSE
           /\ ate = None
           /\ hits = <<>>
           /\ trail = [i \in 1..2 |-> <<Snap("start", gs[i])>>]
  /\ pc = "update"
  /\ ticks = 0
  /\ call = <<>>
  /\ ret = <<>>

SpecTunnel == InitTunnel /\ [][Next]_vars

\* the position is within CELL_SIZE pixels of the centre of the logical cell
\* on each axis
WithinOneTile(a) ==
  /\ Abs(a.pos[1] - (a.cell[1] * 24 + 12) * 100) <= 24 * 100
  /\ Abs(a.pos[2] - (a.cell[2] * 24 + 12) * 100) <= 24 * 100

\* C13: in every state the position of the Player and of every Ghost is
\* within one tile (CELL_SIZE pixels on each axis) of the centre of the
\* actor's logical cell, also after a step through the tunnel
C13_WithinOneTile ==
  /\ WithinOneTile(player)
  /\ \A i \in DOMAIN ghosts : WithinOneTile(ghosts[i])


-----------------------------------------------------------------------------
(* Sessions around the ghost house: one ghost stands at the centre of a     *)
(* cell of the house, Normal or Vulnerable, or of a cell next to the gate   *)
(* in Eyes, with any direction; the other ghost is where Game() put it.     *)
(* The Player is below the power pellet of cell <<1, 3>>.                   *)

\* the cells of the ghost house
HouseCells == {<<x, y>> : x \in 11..16, y \in 13..15}

\* the gate cells with the cells above and below them
GateCells == {<<x, y>> : x \in 13..14, y \in 11..13}

HousePlaces ==
  (HouseCells \X {GHOST_NORMAL, GHOST_VULNERABLE} \X Dirs)
    \cup (GateCells \X {GHOST_EYES} \X {UP, DOWN})

InitHouse ==
  /\ \E i \in 1..2, h \in HousePlaces :
       LET a == NewGame(NoDirs)
           gs == [j \in 1..2 |-> IF j = i THEN Placed(a.ghosts[j], h[1], h[2], h[3])
                                 ELSE a.ghosts[j]]
           P == {<<1, 3>>, <<1, 5>>}
       IN  /\ grid = GridWith(P)
           /\ dots_total = MazeDots(GridWith(P))
           /\ player = PlayerAt(TestPlayerCell, STOP)
           /\ ghosts = gs
           /\ score = 0
           /\ lives = StartLives
           /\ level = 1
           /\ ghost_combo = 0
           /\ game_over = FALSE
           /\ ate = None
           /\ hits = <<>>
           /\ trail = [j \in 1..2 |-> <<Snap("start", gs[j])>>]
  /\ pc = "update"
  /\ ticks = 0
  /\ call = <<>>
  /\ ret = <<>>

SpecHouse == InitHouse /\ [][Next]_vars

-----------------------------------------------------------------------------
(* Invariants of the cells the actors are on                                *)

\* C14: in every state of a session started by Game() on the shipped maze,
\* the initial state included, the Player's logical cell is inside the grid
\* and is neither a wall tile nor a gate tile
C14_PlayerOnOpenTile ==
  /\ InGrid(player.cell)
  /\ MAZE_LAYOUT[player.cell[2] + 1][player.cell[1] + 1] \notin {"#", "="}

\* the tile of the shipped layout at a cell
TileAt(cell) == MAZE_LAYOUT[cell[2] + 1][cell[1] + 1]

\* a ghost in this state may be on this cell
GhostCellOk(cell, state) ==
  /\ InGrid(cell)
  /\ TileAt(cell) # "#"
  /\ TileAt(cell) = "=" => state = "eyes"

\* C15: a ghost's logical cell is never a wall tile, and it is a gate tile
\* only while the ghost is in Eyes state; this holds at every assignment to
\* the ghost's state during a tick (timer expiry, power pellet, eaten,
\* revival, reset) and after every step of Ghost.update
C15_GateOnlyInEyes ==
  \A i \in DOMAIN ghosts :
    /\ GhostCellOk(ghosts[i].cell, ghosts[i].state)
    /\ \A k \in 1..Len(trail[i]) : GhostCellOk(trail[i][k].cell, trail[i][k].state)

\* C15 witness: a ghost in Eyes has stepped onto a gate cell in the tick in
\* which the Player ate a power pellet, and is still in Eyes
C15_Witness ==
  \E i \in DOMAIN ghosts :
    /\ ghosts[i].state = "eyes"
    /\ TileAt(ghosts[i].cell) = "="
    /\ TileAt(trail[i][1].cell) # "="
    /\ trail[i][Len(trail[i])].by = "set_vulnerable"
    /\ ate = "power"

\* a ghost in this state may be on this cell of the shipped maze: outside
\* Eyes, only on the cells of the ghost house
InHouseUnlessEyes(cell, state) ==
  state # "eyes" => (cell[1] \in 11..16 /\ cell[2] \in 13..15)

\* C20: on the shipped maze a ghost in Normal or Vulnerable state always has
\* its logical cell inside the ghost house (columns 11..16, rows 13..15), at
\* every assignment to its state and after every step; only a ghost in Eyes
\* is ever outside
C20_HouseConfinement ==
  \A i \in DOMAIN ghosts :
    /\ InHouseUnlessEyes(ghosts[i].cell, ghosts[i].state)
    /\ \A k \in 1..Len(trail[i]) : InHouseUnlessEyes(trail[i][k].cell, trail[i][k].state)

\* C20 witness: a Normal or Vulnerable ghost that stood at the centre of a
\* cell below the gate has stepped to another cell, and is still in the house
C20_Witness ==
  /\ \E i \in DOMAIN ghosts :
       /\ trail[i][1].state # "eyes"
       /\ trail[i][1].cell \in {<<13, 13>>, <<14, 13>>}
       /\ ghosts[i].state # "eyes"
       /\ ghosts[i].cell # trail[i][1].cell
       /\ ghosts[i].cell[1] \in 11..16
       /\ ghosts[i].cell[2] \in 13..15
  /\ ticks = 1

====
